---- MODULE Spec2Model ----
(***************************************************************************)
(* Model of the turing-smart-screen driver (src/src/screen.rs).            *)
(*                                                                         *)
(* A Screen owns nothing but its serial port, so the state is the record   *)
(* of the call in progress: which operation was called with which          *)
(* arguments, how the transport answers, the write calls issued so far     *)
(* and the operation's outcome.                                            *)
(***************************************************************************)
EXTENDS Integers, Sequences, FiniteSets, TLC

VARIABLES
    call,             \* [op, args]: the operation called and its arguments
    port,             \* how the transport answers the write calls of this call
    overflow_checks,  \* build profile: TRUE = arithmetic overflow panics
    wire,             \* the write calls issued, in order: [buf, ok, n]
    outcome           \* "idle" | "Ok" | "WriteError" | "WrongImageSize" | "panic"

vars == <<call, port, overflow_checks, wire, outcome>>

----------------------------------------------------------------------------
(* Bounds of the model *)

\* draw is tried on buffers WIDTH/HEIGHT wide and 0..MaxRows tall
MaxRows == 9
\* ... and on buffers 0..MaxCols wide and WIDTH/HEIGHT tall
MaxCols == 2
\* the transport misbehaves on at most one write call, the 1st..MaxAt-th
MaxAt == 3

----------------------------------------------------------------------------
(* Program constants *)

WIDTH == 320
HEIGHT == 480

\* enum Orientation
Portrait == 0
ReversePortrait == 1
Landscape == 2
ReverseLandscape == 3
Orientation == {Portrait, ReversePortrait, Landscape, ReverseLandscape}

\* enum ScreenCommand
Reset == 101
Clear == 102
ToBlack == 103
ScreenOff == 108
ScreenOn == 109
SetBrigthness == 110
SetOrientation == 121
DisplayBitmap == 197
ScreenCommand == {Reset, Clear, ToBlack, ScreenOff, ScreenOn, SetBrigthness,
                  SetOrientation, DisplayBitmap}

----------------------------------------------------------------------------
(* Fixed-width integer arithmetic *)

\* `v as u8`: truncation to the low 8 bits
U8(v) == v % 256
\* `v as u16`: truncation to the low 16 bits
U16(v) == v % 65536
\* `v >> k`
Shr(v, k) == v \div (2 ^ k)
\* `v << k` on a u16: bits shifted past bit 15 are dropped
Shl(v, k) == U16(v * (2 ^ k))

RECURSIVE BitAnd(_, _)
\* `a & b`
BitAnd(a, b) ==
    IF a = 0 \/ b = 0 THEN 0
    ELSE (a % 2) * (b % 2) + 2 * BitAnd(a \div 2, b \div 2)

RECURSIVE BitOr(_, _)
\* `a | b`
BitOr(a, b) ==
    IF a = 0 THEN b
    ELSE IF b = 0 THEN a
    ELSE (IF a % 2 = 1 \/ b % 2 = 1 THEN 1 ELSE 0)
         + 2 * BitOr(a \div 2, b \div 2)

----------------------------------------------------------------------------
(* The transport: self.port.write(&buf) -> io::Result<usize> *)

\* A short write accepts this many bytes fewer than offered
Drops == {1}

PortOk == [kind |-> "ok", at |-> 0, drop |-> 0]
PortErrs == {[kind |-> "err", at |-> k, drop |-> 0] : k \in 1..MaxAt}
PortShorts == {[kind |-> "short", at |-> k, drop |-> d] : k \in 1..MaxAt, d \in Drops}
Ports == {PortOk} \cup PortErrs \cup PortShorts

\* The answer to the k-th write call of an operation: Err(_), or Ok(n) with
\* n the number of bytes accepted, at most (and possibly less than) Len(buf).
port_write(pl, k, buf) ==
    IF pl.kind = "err" /\ pl.at = k
    THEN [buf |-> buf, ok |-> FALSE, n |-> 0]
    ELSE IF pl.kind = "short" /\ pl.at = k
    THEN [buf |-> buf, ok |-> TRUE,
          n |-> IF Len(buf) > pl.drop THEN Len(buf) - pl.drop ELSE 0]
    ELSE [buf |-> buf, ok |-> TRUE, n |-> Len(buf)]

\* `.map_err(|_| ScreenError::WriteError)?` : the count of Ok(n) is dropped
map_err(r) == IF r.ok THEN "Ok" ELSE "WriteError"

----------------------------------------------------------------------------
(* Command encoder *)

\* Mutant: the fields joined by `|`
byte_buffer_or(x, y, ex, ey, cmd) ==
    << U8(Shr(x, 2)),
       U8(BitOr(Shl(BitAnd(x, 3), 6), Shr(y, 4))),
       U8(BitOr(Shl(BitAnd(y, 15), 4), Shr(ex, 6))),
       U8(BitOr(Shl(BitAnd(ex, 63), 2), Shr(ey, 8))),
       U8(BitAnd(ey, 255)),
       U8(cmd) >>

\* Mutant: the low bits of x left out of byte 1
byte_buffer_x_high_only(x, y, ex, ey, cmd) ==
    << U8(Shr(x, 2)),
       U8(Shr(y, 4)),
       U8(Shl(BitAnd(y, 15), 4) + Shr(ex, 6)),
       U8(Shl(BitAnd(ex, 63), 2) + Shr(ey, 8)),
       U8(BitAnd(ey, 255)),
       U8(cmd) >>

\* The 6-byte frame of send_command. The u16 sums cannot overflow:
\* each is at most 252 + 4095.
byte_buffer(x, y, ex, ey, cmd) ==
    << U8(Shr(x, 2)),
       U8(Shl(BitAnd(x, 3), 6) + Shr(y, 4)),
       U8(Shl(BitAnd(y, 15), 4) + Shr(ex, 6)),
       U8(Shl(BitAnd(ex, 63), 2) + Shr(ey, 8)),
       U8(BitAnd(ey, 255)),
       U8(cmd) >>

\* send_command as the k-th write call of an operation, after the writes w
send_command(pl, w, x, y, ex, ey, cmd) ==
    LET r == port_write(pl, Len(w) + 1, byte_buffer(x, y, ex, ey, cmd))
    IN  [wire |-> Append(w, r), res |-> map_err(r)]

\* Mutant: the orientation code without its offset of 100
orientation_bytes_no_offset(o) ==
    <<0, 0, 0, 0, 0, U8(SetOrientation), U8(o), 3, 200, 4, 0>>

\* The 11-byte frame of orientation()
orientation_bytes(o) ==
    <<0, 0, 0, 0, 0, U8(SetOrientation), U8(o) + 100, 3, 200, 4, 0>>

orientation_result(pl, o) ==
    LET r == port_write(pl, 1, orientation_bytes(o))
    IN  [wire |-> <<r>>, res |-> map_err(r)]

\* Mutant: the level not inverted
brightness_result_not_inverted(pl, level) ==
    send_command(pl, <<>>, level, 0, 0, 0, SetBrigthness)

\* `let level = 255 - level;` on a u8, then `level as u16` in the x field
brightness_result(pl, level) ==
    send_command(pl, <<>>, 255 - level, 0, 0, 0, SetBrigthness)

----------------------------------------------------------------------------
(* Bitmap streamer *)

\* Test content of a pixel buffer: the Rgb<u8> at column x, row y
pixel_at(img, x, y) ==
    << (x * 7 + y * 13 + img.pat * 37) % 256,
       (x * 3 + y * 5 + img.pat * 11) % 256,
       (x + y * 17 + img.pat * 101) % 256 >>

\* img.pixels().collect(): the pixels row by row; this is element i (from 0)
pixels(img, i) == pixel_at(img, i % img.width, i \div img.width)

\* `(r << 11) | (g << 5) | b` for every 5-bit r, 6-bit g and 5-bit b,
\* tabulated once
pack565 ==
    [r \in 0..31 |-> [g \in 0..63 |-> [b \in 0..31 |->
        BitOr(BitOr(Shl(r, 11), Shl(g, 5)), b)]]]

rgb565(pixel) ==
    LET r == Shr(pixel[1], 3)
        g == Shr(pixel[2], 2)
        b == Shr(pixel[3], 3)
    IN  pack565[r][g][b]

\* Mutant: the high byte pushed first
chunk_bytes_msb_first(chunk) ==
    LET v == [i \in 1..Len(chunk) |-> rgb565(chunk[i])]
    IN  [j \in 1..(2 * Len(chunk)) |->
            IF j % 2 = 1 THEN U8(Shr(v[(j + 1) \div 2], 8))
                         ELSE U8(BitAnd(v[j \div 2], 255))]

\* bytes.push(LSB); bytes.push(MSB) for every pixel of the chunk
chunk_bytes(chunk) ==
    LET v == [i \in 1..Len(chunk) |-> rgb565(chunk[i])]
    IN  [j \in 1..(2 * Len(chunk)) |->
            IF j % 2 = 1 THEN U8(BitAnd(v[(j + 1) \div 2], 255))
                         ELSE U8(Shr(v[j \div 2], 8))]

\* The number of pixels img.pixels() yields
pixel_count(img) == img.width * img.height

\* The elements from (0-based) to - 1 of the collected pixels
pixel_slice(img, from, to) ==
    [k \in 1..(to - from) |-> pixels(img, from + k - 1)]

\* Mutant: the remainder never written
write_remainder_dropped(pl, img, size, w) == [wire |-> w, res |-> "Ok"]

\* The write of the remainder of chunks_exact(size), if it is not empty
write_remainder(pl, img, size, w) ==
    LET n == pixel_count(img)
        remainder == pixel_slice(img, n - (n % size), n)
        r == port_write(pl, Len(w) + 1, chunk_bytes(remainder))
    IN  IF n % size = 0 THEN [wire |-> w, res |-> "Ok"]
        ELSE [wire |-> Append(w, r), res |-> map_err(r)]

RECURSIVE write_chunks_keeps_going(_, _, _, _, _)
\* Mutant: the result of a chunk's write ignored
write_chunks_keeps_going(pl, img, size, i, w) ==
    IF i >= pixel_count(img) \div size THEN write_remainder(pl, img, size, w)
    ELSE LET chunk == pixel_slice(img, i * size, (i + 1) * size)
             r == port_write(pl, Len(w) + 1, chunk_bytes(chunk))
         IN  write_chunks_keeps_going(pl, img, size, i + 1, Append(w, r))

RECURSIVE write_chunks(_, _, _, _, _)
\* The loop over chunks_exact(size), at its i-th chunk (from 0), and the
\* remainder after it; a failed write returns at once
write_chunks(pl, img, size, i, w) ==
    IF i >= pixel_count(img) \div size THEN write_remainder(pl, img, size, w)
    ELSE LET chunk == pixel_slice(img, i * size, (i + 1) * size)
             r == port_write(pl, Len(w) + 1, chunk_bytes(chunk))
         IN  IF ~r.ok THEN [wire |-> Append(w, r), res |-> "WriteError"]
             ELSE write_chunks(pl, img, size, i + 1, Append(w, r))

\* The size check of draw
size_ok(width, height) ==
    (width = WIDTH \/ height = HEIGHT) \/ (width = HEIGHT \/ height = WIDTH)

\* draw. `width - 1` and `height - 1` are u32 subtractions: on 0 they panic
\* when the build checks overflow and wrap otherwise, and `as u16` keeps the
\* low 16 bits. chunks_exact(0) panics in every build.
draw_result(pl, oc, img) ==
    IF ~size_ok(img.width, img.height)
    THEN [wire |-> <<>>, res |-> "WrongImageSize"]
    ELSE IF oc /\ (img.width = 0 \/ img.height = 0)
    THEN [wire |-> <<>>, res |-> "panic"]
    ELSE LET c == send_command(pl, <<>>, 0, 0, U16(img.width - 1),
                               U16(img.height - 1), DisplayBitmap)
         IN  IF c.res # "Ok" THEN c
             ELSE IF img.width * 8 = 0 THEN [wire |-> c.wire, res |-> "panic"]
             ELSE write_chunks(pl, img, img.width * 8, 0, c.wire)

----------------------------------------------------------------------------
(* Inputs *)

\* Coordinates around the field boundaries of the frame
Coords == {0, 1, 3, 64, 319, 479, 1023, 1024, 16383, 65535}

Dims == ({WIDTH, HEIGHT} \X (0..MaxRows))
        \cup ((0..MaxCols) \X {WIDTH, HEIGHT})
        \cup ((0..MaxCols) \X (0..MaxRows))
        \cup {<<100, 100>>}

\* Test patterns of pixel content
Patterns == {1, 2}

\* The two buffers of the panel's size
PanelImages == {[width |-> WIDTH, height |-> HEIGHT, pat |-> 1],
                [width |-> HEIGHT, height |-> WIDTH, pat |-> 1]}

Images == {[width |-> d[1], height |-> d[2], pat |-> p] :
              d \in Dims, p \in Patterns}
          \cup PanelImages

\* Transport behaviours tried on a buffer: short writes on the small ones only
PortsFor(img) == IF img \in PanelImages THEN {PortOk} \cup PortErrs ELSE Ports

----------------------------------------------------------------------------
(* Behaviour *)

NoCall == [op |-> "none", args |-> <<>>]

Init ==
    /\ call = NoCall
    /\ port = PortOk
    /\ overflow_checks \in BOOLEAN
    /\ wire = <<>>
    /\ outcome = "idle"

\* Every operation runs from call to return as one step: the driver is
\* synchronous and single-threaded. r is the operation's result, computed once.

SendCommand ==
    /\ outcome = "idle"
    /\ \E x \in Coords, y \in Coords, ex \in Coords, ey \in Coords,
          cmd \in ScreenCommand, pl \in {q \in Ports : q.at <= 1} :
          \E r \in {send_command(pl, <<>>, x, y, ex, ey, cmd)} :
              /\ call' = [op |-> "send_command", args |-> <<x, y, ex, ey, cmd>>]
              /\ port' = pl
              /\ wire' = r.wire
              /\ outcome' = r.res
    /\ UNCHANGED overflow_checks

orientation ==
    /\ outcome = "idle"
    /\ \E o \in Orientation, pl \in Ports :
          \E r \in {orientation_result(pl, o)} :
              /\ call' = [op |-> "orientation", args |-> <<o>>]
              /\ port' = pl
              /\ wire' = r.wire
              /\ outcome' = r.res
    /\ UNCHANGED overflow_checks

clear ==
    /\ outcome = "idle"
    /\ \E pl \in Ports :
          \E r \in {send_command(pl, <<>>, 0, 0, 0, 0, Clear)} :
              /\ call' = [op |-> "clear", args |-> <<>>]
              /\ port' = pl
              /\ wire' = r.wire
              /\ outcome' = r.res
    /\ UNCHANGED overflow_checks

to_black ==
    /\ outcome = "idle"
    /\ \E pl \in Ports :
          \E r \in {send_command(pl, <<>>, 0, 0, 0, 0, ToBlack)} :
              /\ call' = [op |-> "to_black", args |-> <<>>]
              /\ port' = pl
              /\ wire' = r.wire
              /\ outcome' = r.res
    /\ UNCHANGED overflow_checks

brightness ==
    /\ outcome = "idle"
    /\ \E level \in 0..255, pl \in Ports :
          \E r \in {brightness_result(pl, level)} :
              /\ call' = [op |-> "brightness", args |-> <<level>>]
              /\ port' = pl
              /\ wire' = r.wire
              /\ outcome' = r.res
    /\ UNCHANGED overflow_checks

screen_off ==
    /\ outcome = "idle"
    /\ \E pl \in Ports :
          \E r \in {send_command(pl, <<>>, 0, 0, 0, 0, ScreenOff)} :
              /\ call' = [op |-> "screen_off", args |-> <<>>]
              /\ port' = pl
              /\ wire' = r.wire
              /\ outcome' = r.res
    /\ UNCHANGED overflow_checks

screen_on ==
    /\ outcome = "idle"
    /\ \E pl \in Ports :
          \E r \in {send_command(pl, <<>>, 0, 0, 0, 0, ScreenOn)} :
              /\ call' = [op |-> "screen_on", args |-> <<>>]
              /\ port' = pl
              /\ wire' = r.wire
              /\ outcome' = r.res
    /\ UNCHANGED overflow_checks

draw ==
    /\ outcome = "idle"
    /\ \E img \in Images :
       \E pl \in PortsFor(img) :
          \E r \in {draw_result(pl, overflow_checks, img)} :
              /\ call' = [op |-> "draw",
                          args |-> <<img.width, img.height, img.pat>>]
              /\ port' = pl
              /\ wire' = r.wire
              /\ outcome' = r.res
    /\ UNCHANGED overflow_checks

\* The caller takes the result; the driver keeps nothing of the call
Return ==
    /\ outcome \in {"Ok", "WriteError", "WrongImageSize"}
    /\ call' = NoCall
    /\ port' = PortOk
    /\ wire' = <<>>
    /\ outcome' = "idle"
    /\ UNCHANGED overflow_checks

Next ==
    \/ orientation
    \/ clear
    \/ to_black
    \/ brightness
    \/ screen_off
    \/ screen_on
    \/ draw
    \/ Return

Spec == Init /\ [][Next]_vars

\* The frame encoder alone, on its whole argument space
NextEnc ==
    \/ SendCommand
    \/ Return

SpecEnc == Init /\ [][NextEnc]_vars

----------------------------------------------------------------------------
(* Properties *)

IsCall(op) == call.op = op /\ outcome # "idle"

\* The arguments of the call in progress
ArgX == call.args[1]
ArgY == call.args[2]
ArgEx == call.args[3]
ArgEy == call.args[4]
ArgCmd == call.args[5]
ImgWidth == call.args[1]
ImgHeight == call.args[2]
ImgPat == call.args[3]

\* Decoding of a region frame b with the inverse shifts and masks
DecodeX(b) == BitOr(b[1] * 4, b[2] \div 64)
DecodeY(b) == BitOr(BitAnd(b[2], 63) * 16, b[3] \div 16)
DecodeEx(b) == BitOr(BitAnd(b[3], 15) * 64, b[4] \div 4)
DecodeEy(b) == BitOr(BitAnd(b[4], 3) * 256, b[5])
Decode(b) == <<DecodeX(b), DecodeY(b), DecodeEx(b), DecodeEy(b), b[6]>>

\* The frame with the fields joined by `|`, as the specification writes it
OrFrame(x, y, ex, ey, cmd) ==
    << (x \div 4) % 256,
       BitOr((x % 4) * 64, y \div 16) % 256,
       BitOr((y % 16) * 16, ex \div 64) % 256,
       BitOr((ex % 64) * 4, ey \div 256) % 256,
       ey % 256,
       cmd % 256 >>

\* The frame with the fields joined by `+`
SumFrame(x, y, ex, ey, cmd) ==
    << (x \div 4) % 256,
       ((x % 4) * 64 + y \div 16) % 256,
       ((y % 16) * 16 + ex \div 64) % 256,
       ((ex % 64) * 4 + ey \div 256) % 256,
       ey % 256,
       cmd % 256 >>

\* C1 as stated: for all 16-bit x, y, ex, ey and every opcode send_command
\* writes exactly one 6-byte frame whose fields are joined by `|`, and the
\* encoding never fails.
C1_FrameJoinsFieldsWithOr ==
    IsCall("send_command") =>
        /\ outcome \in {"Ok", "WriteError"}
        /\ Len(wire) = 1
        /\ wire[1].buf = OrFrame(ArgX, ArgY, ArgEx, ArgEy, ArgCmd)

\* C1 as amended: send_command writes exactly one 6-byte frame whose fields
\* are joined by addition, each byte taken to its low 8 bits; the frame is the
\* `|` frame whenever y, ex and ey are below 1024, and the encoding never fails.
C1_FrameJoinsFieldsWithSum ==
    IsCall("send_command") =>
        /\ outcome \in {"Ok", "WriteError"}
        /\ Len(wire) = 1
        /\ Len(wire[1].buf) = 6
        /\ wire[1].buf = SumFrame(ArgX, ArgY, ArgEx, ArgEy, ArgCmd)
        /\ (ArgY < 1024 /\ ArgEx < 1024 /\ ArgEy < 1024) =>
               wire[1].buf = OrFrame(ArgX, ArgY, ArgEx, ArgEy, ArgCmd)

\* A frame of out-of-range coordinates on which `+` and `|` differ was written
C1_Witness ==
    /\ IsCall("send_command")
    /\ call.args = <<3, 1024, 1024, 1024, DisplayBitmap>>
    /\ outcome = "Ok"
    /\ wire[1].buf = <<0, 0, 16, 4, 0, 197>>

\* C6 as stated: for x, ex in [0,16383] and y, ey in [0,65535] decoding the
\* frame recovers (x mod 2^14, y, ex mod 2^14, ey) and the opcode.
C6_RoundTrip14Bits ==
    (IsCall("send_command") /\ ArgX <= 16383 /\ ArgEx <= 16383) =>
        Decode(wire[1].buf) =
            <<ArgX % 16384, ArgY, ArgEx % 16384, ArgEy, ArgCmd>>

\* C6 as amended: for x in [0,16383] and y, ex, ey in [0,1023] decoding the
\* frame recovers (x mod 2^10, y, ex, ey) and the opcode.
C6_RoundTrip10Bits ==
    (IsCall("send_command") /\ ArgX <= 16383
        /\ ArgY <= 1023 /\ ArgEx <= 1023 /\ ArgEy <= 1023) =>
        Decode(wire[1].buf) = <<ArgX % 1024, ArgY, ArgEx, ArgEy, ArgCmd>>

\* The frame of the largest coordinates of the amended range was written
C6_Witness ==
    /\ IsCall("send_command")
    /\ call.args = <<16383, 1023, 1023, 1023, Clear>>
    /\ Decode(wire[1].buf) = <<1023, 1023, 1023, 1023, 102>>

\* The byte at position p (from 1) of the row-major RGB565 stream of the
\* buffer in the call: pixel (p-1) \div 2, low byte first. The three fields
\* of the 16-bit value do not overlap, so `|` is written as a sum.
StreamByte(p) ==
    LET q == (p - 1) \div 2
        px == pixel_at([width |-> ImgWidth, height |-> ImgHeight, pat |-> ImgPat],
                       q % ImgWidth, q \div ImgWidth)
        v == (px[1] \div 8) * 2048 + (px[2] \div 4) * 32 + (px[3] \div 8)
    IN  IF p % 2 = 1 THEN v % 256 ELSE v \div 256

RECURSIVE PayloadBefore(_)
\* The number of payload bytes offered by the writes before the k-th
PayloadBefore(k) ==
    IF k <= 2 THEN 0 ELSE PayloadBefore(k - 1) + Len(wire[k - 1].buf)

\* Every payload write continues the stream where the one before it ended
PayloadInOrder ==
    \A k \in 2..Len(wire) :
        LET before == PayloadBefore(k)
            buf == wire[k].buf
        IN  \A j \in 1..Len(buf) : buf[j] = StreamByte(before + j)

\* C2: when draw succeeds, its payload writes concatenated in order are the
\* row-major pixel sequence of the buffer, 2*width*height bytes, each pixel
\* as the two bytes of its RGB565 value, low byte first.
C2_PayloadIsPixelStream ==
    (IsCall("draw") /\ outcome = "Ok") =>
        /\ PayloadBefore(Len(wire) + 1) = 2 * ImgWidth * ImgHeight
        /\ PayloadInOrder

\* A draw of one full chunk and a remainder row succeeded
C2_Witness ==
    /\ IsCall("draw")
    /\ ImgWidth = WIDTH /\ ImgHeight = 9
    /\ outcome = "Ok"
    /\ Len(wire) = 3
    /\ Len(wire[3].buf) = 2 * WIDTH

CeilDiv8(h) == (h + 7) \div 8

\* No write call of the draw in progress is answered with an error
EveryWriteSucceeds ==
    port.kind = "err" => port.at > 1 + CeilDiv8(ImgHeight)

\* The region frame for (0, 0, w-1, h-1) with opcode 197, w and h <= 1024
RegionFrame(w, h) ==
    <<0, 0, (w - 1) \div 64, (((w - 1) % 64) * 4 + (h - 1) \div 256) % 256,
      (h - 1) % 256, 197>>

\* C3: draw on a buffer with width >= 1 and height >= 1 that passes the size
\* check (320x480 and 480x320 among them), every write succeeding, returns
\* success after one region-command write for (0, 0, width-1, height-1) with
\* opcode 197 and ceil(height/8) payload writes of 2*width*8 bytes, the last
\* of 2*width*(height mod 8) bytes when height mod 8 # 0.
C3_DrawWrites ==
    (IsCall("draw") /\ ImgWidth >= 1 /\ ImgHeight >= 1
        /\ (ImgWidth \in {320, 480} \/ ImgHeight \in {320, 480})
        /\ EveryWriteSucceeds) =>
        /\ outcome = "Ok"
        /\ Len(wire) = 1 + CeilDiv8(ImgHeight)
        /\ wire[1].buf = RegionFrame(ImgWidth, ImgHeight)
        /\ \A k \in 2..Len(wire) :
              Len(wire[k].buf) =
                  IF k = Len(wire) /\ ImgHeight % 8 # 0
                  THEN 2 * ImgWidth * (ImgHeight % 8)
                  ELSE 2 * ImgWidth * 8

\* A draw of a 320x480 buffer succeeded with 1 + 60 writes
C3_Witness ==
    /\ IsCall("draw")
    /\ ImgWidth = 320 /\ ImgHeight = 480
    /\ outcome = "Ok"
    /\ Len(wire) = 61
    /\ Len(wire[61].buf) = 5120

\* C4 as stated: draw on a buffer that is neither 320x480 nor 480x320 fails
\* with WrongImageSize and issues no write. Stated here of the buffers that
\* hold at least one pixel; what draw does on empty ones is C10's subject.
C4_OtherSizesRejected ==
    (IsCall("draw") /\ ImgWidth >= 1 /\ ImgHeight >= 1
        /\ <<ImgWidth, ImgHeight>> \notin {<<320, 480>>, <<480, 320>>}) =>
        /\ outcome = "WrongImageSize"
        /\ wire = <<>>

\* C5: if the transport fails on the N-th write of a draw, draw returns
\* WriteError and issues no write after the N-th; the N-1 writes before it
\* were each made once, in order, and succeeded.
C5_FailedWriteEndsDraw ==
    \A n \in 1..Len(wire) :
        (IsCall("draw") /\ ~wire[n].ok) =>
            /\ outcome = "WriteError"
            /\ Len(wire) = n
            /\ port.at = n
            /\ \A k \in 1..(n - 1) : wire[k].ok
            /\ wire[1].buf = SumFrame(0, 0, (ImgWidth - 1) % 65536,
                                      (ImgHeight - 1) % 65536, 197)
            /\ PayloadInOrder

\* The write of the remainder, the third of the draw, failed
C5_Witness ==
    /\ IsCall("draw")
    /\ ImgWidth = WIDTH /\ ImgHeight = 9
    /\ port.kind = "err" /\ port.at = 3
    /\ Len(wire) = 3
    /\ ~wire[3].ok
    /\ outcome = "WriteError"

\* C7: brightness(level) issues exactly one write of a 6-byte region frame
\* with opcode 110 whose x field decodes to 255 - level and whose y, ex and ey
\* fields decode to 0; the inversion never underflows.
C7_BrightnessFrame ==
    IsCall("brightness") =>
        /\ outcome \in {"Ok", "WriteError"}
        /\ Len(wire) = 1
        /\ Len(wire[1].buf) = 6
        /\ Decode(wire[1].buf) = <<255 - call.args[1], 0, 0, 0, 110>>
        /\ DecodeX(wire[1].buf) \in 0..255

\* brightness(0) was written with 255 in the x field
C7_Witness ==
    /\ IsCall("brightness")
    /\ call.args = <<0>>
    /\ outcome = "Ok"
    /\ DecodeX(wire[1].buf) = 255

\* C8: orientation() issues exactly one write of the 11-byte frame
\* [0,0,0,0,0,121,100+code,3,200,4,0]; for Landscape it is
\* [0,0,0,0,0,121,102,3,200,4,0].
C8_OrientationFrame ==
    IsCall("orientation") =>
        /\ Len(wire) = 1
        /\ wire[1].buf = <<0, 0, 0, 0, 0, 121, 100 + call.args[1], 3, 200, 4, 0>>
        /\ call.args[1] = 2 =>
               wire[1].buf = <<0, 0, 0, 0, 0, 121, 102, 3, 200, 4, 0>>

\* orientation(Landscape) was written
C8_Witness ==
    /\ IsCall("orientation")
    /\ call.args = <<Landscape>>
    /\ outcome = "Ok"
    /\ wire[1].buf[7] = 102

\* C9 as stated: an operation returns success only once the transport has
\* accepted every byte of every frame and payload chunk it issued.
C9_SuccessMeansAllAccepted ==
    outcome = "Ok" => \A k \in 1..Len(wire) : wire[k].n = Len(wire[k].buf)

\* C10 as stated: for every pixel buffer, those of width 0 or height 0
\* included, and every transport behaviour, draw ends as success, WriteError
\* or WrongImageSize and never aborts.
C10_DrawNeverAborts ==
    IsCall("draw") => outcome \in {"Ok", "WriteError", "WrongImageSize"}

====
